---- MODULE Spec2Model ----
(***************************************************************************)
(* Invoice pipeline of ai-fatura-tarayici: the invoice record and the HTTP *)
(* handlers that act on it (backend/app/api/v1/invoices.py), the ledger    *)
(* client they call (backend/app/services/parasut_integration.py), the     *)
(* tax engine (backend/app/services/kdv_calculator.py) and the extractor's *)
(* reconciliation (backend/app/services/ai_extraction_service.py).         *)
(*                                                                         *)
(* Money is counted in hundredths of a currency unit (kurus), so that the  *)
(* Decimal arithmetic of the source is exact integer arithmetic here:      *)
(* Decimal("0.01") is 1 and Decimal("1.00") is 100.                        *)
(***************************************************************************)
EXTENDS Integers, Sequences, FiniteSets, TLC

VARIABLES
    invoice,      \* the stored Invoice row (models/invoice.py Invoice), or the absent row
    client_open,  \* ParasutClient._client is a usable httpx client
    token,        \* ParasutClient._token
    redis_token,  \* the shared cache entry "parasut:access_token"
    last,         \* the last request handled: operation, HTTP status, ledger traffic
    recon_in,     \* the record handed to _validate_and_recalculate
    recon_out,    \* the record it returned
    recon_done,   \* whether it has run
    extraction,   \* one call of extract_invoice_data / extract_with_fallback
    now,          \* datetime.utcnow(), in minutes; it moves under SpecLedger only
    token_expires_at,  \* ParasutClient._token_expires_at, followed under SpecLedger;
                  \* the handlers of Spec take _is_token_valid to answer either way
    redis_expires_at,  \* when the shared cache entry expires, followed under SpecLedger
    request,      \* one call of ParasutClient.export_invoice and its _make_request
    kdv,          \* one call of a KDVCalculator method: arguments and result
    exports       \* export requests in flight, one per worker, followed under
                  \* SpecExporters, and the invoices the ledger has created

invoiceVars == <<invoice>>
ledgerVars == <<client_open, token, redis_token>>
reconVars == <<recon_in, recon_out, recon_done>>
clockVars == <<now, token_expires_at, redis_expires_at>>
serviceVars == <<reconVars, extraction, clockVars, request, kdv, exports>>
vars == <<invoice, client_open, token, redis_token, last, recon_in, recon_out, recon_done,
          extraction, now, token_expires_at, redis_expires_at, request, kdv, exports>>

-----------------------------------------------------------------------------
(* Values *)

\* Python None, for the optional string and timestamp columns.
None == "None"

\* Invoice.extracted_data = None. The handlers only ever test the column for
\* truth (`not invoice.extracted_data`, `invoice.extracted_data or {}`), and
\* no handler stores an empty dict, so None is the only falsy value stored.
NoData == << >>

\* None where the column or attribute otherwise holds a number:
\* ParasutClient._token_expires_at before any token, and the status_code of
\* a ParasutAPIError raised without one.
NoExpiry == -1
NoStatus == 0

\* None in place of a response body.
NoBody == << >>

UPLOADED == "uploaded"
PROCESSING == "processing"
COMPLETED == "completed"
FAILED == "failed"
EXPORTED == "exported"

InvoiceStatus == {UPLOADED, PROCESSING, COMPLETED, FAILED, EXPORTED}

Users == {"owner", "other"}

\* The row a request finds when the invoice does not exist.
Absent ==
    [exists |-> FALSE, user_id |-> None, status |-> UPLOADED,
     extracted_data |-> NoData, error_message |-> None,
     exported_to_parasut |-> FALSE, parasut_invoice_id |-> None,
     exported_at |-> None]

\* dict.update: the keys of b overwrite those of a.
DictUpdate(a, b) ==
    [k \in (DOMAIN a) \cup (DOMAIN b) |-> IF k \in DOMAIN b THEN b[k] ELSE a[k]]

\* dict.get(key) followed by a truth test: missing, None and 0 are falsy.
Truthy(d, k) == k \in DOMAIN d /\ d[k] # 0

\* The request bodies of PUT /{invoice_id} that set extracted_data: an empty
\* dict, an edit of a text field, an edit of subtotal and kdv_rate, and an
\* edit whose subtotal is 0.
EditDicts ==
    { NoData,
      [notes |-> 1],
      [subtotal |-> 1, kdv_rate |-> 20],
      [subtotal |-> 0, kdv_rate |-> 20] }

\* The record the processing job stores on success.
JobData == [subtotal |-> 2, notes |-> 0]

\* InvoiceUpdate.status: unset, or any member of InvoiceStatus
\* (validate_status rejects every other string before the handler runs).
Unset == "unset"
StatusInputs == InvoiceStatus \cup {Unset}

\* Ids the ledger may return in data.id; None when the response has none.
LedgerIds == {"p1", None}

Tokens == {"t1", "t2"}

-----------------------------------------------------------------------------
(* KDVCalculator *)

\* The methods class KDVCalculator defines.
KDVCalculatorMethods ==
    {"get_valid_rates", "get_categories_for_rate", "calculate", "validate",
     "_find_closest_valid_rate", "calculate_from_total"}

\* Decimal.quantize(Decimal("0.01"), ROUND_HALF_UP) of n/100 hundredths, n >= 0.
RoundHalfUp100(n) == (n + 50) \div 100

\* KDVCalculator.calculate(subtotal, rate).kdv_amount for subtotal >= 0.
calculate_kdv_amount(subtotal, rate) == RoundHalfUp100(subtotal * rate)

-----------------------------------------------------------------------------
(* AIExtractionService._validate_and_recalculate                            *)
(* (services/ai_extraction_service.py)                                      *)

Abs(x) == IF x < 0 THEN -x ELSE x

\* Decimal("0.01"), the line-level tolerance, in hundredths.
LineTolerance == 1

\* Decimal("1.00"), the document-level tolerance, in hundredths.
DocTolerance == 100

\* One pass of the loop body (lines 248-260) over `item`. acc holds the line
\* items as they stand after the pass and the two running sums. The first
\* statement after line_subtotal calls self._kdv_calculator.calculate_kdv,
\* which KDVCalculator does not define: the AttributeError leaves the `try`
\* for the `except Exception`, which logs and goes on to the next item, so
\* the item keeps its total and the sums are not added to.
line_step(acc, item) ==
    LET line_subtotal == item.quantity * item.unit_price
        line_kdv == calculate_kdv_amount(line_subtotal, item.kdv_rate)
    IN  IF "calculate_kdv" \notin KDVCalculatorMethods
        THEN [acc EXCEPT !.line_items = Append(@, item)]
        ELSE [line_items |->
                 Append(acc.line_items,
                        IF Abs(item.total - line_subtotal) > LineTolerance
                        THEN [item EXCEPT !.total = line_subtotal]
                        ELSE item),
              subtotal |-> acc.subtotal + line_subtotal,
              total_kdv |-> acc.total_kdv + line_kdv]

\* The loop of lines 247-260 over the items left.
RECURSIVE recalc_lines(_, _)
recalc_lines(items, acc) ==
    IF items = << >> THEN acc
    ELSE recalc_lines(Tail(items), line_step(acc, Head(items)))

\* _validate_and_recalculate(data): the record returned.
validate_and_recalculate(data) ==
    IF data.line_items = << >> THEN data
    ELSE
        LET acc == recalc_lines(data.line_items,
                                [line_items |-> << >>, subtotal |-> 0, total_kdv |-> 0])
            calculated_subtotal == acc.subtotal
            calculated_total_kdv == acc.total_kdv
            calculated_total == calculated_subtotal + calculated_total_kdv
        IN  [line_items |-> acc.line_items,
             subtotal |->
                 IF Abs(data.subtotal - calculated_subtotal) > DocTolerance
                 THEN calculated_subtotal ELSE data.subtotal,
             total_kdv |->
                 IF Abs(data.total_kdv - calculated_total_kdv) > DocTolerance
                 THEN calculated_total_kdv ELSE data.total_kdv,
             total_amount |->
                 IF Abs(data.total_amount - calculated_total) > DocTolerance
                 THEN calculated_total ELSE data.total_amount]

-----------------------------------------------------------------------------
(* Settings (core/config.py) *)

\* The Redis and Parasut fields class Settings declares. Reading any other
\* attribute of `settings` raises AttributeError.
SettingsFields ==
    {"REDIS_URL", "REDIS_PASSWORD", "REDIS_DB", "REDIS_MAX_CONNECTIONS",
     "REDIS_DECODE_RESPONSES", "PARASUT_CLIENT_ID", "PARASUT_CLIENT_SECRET",
     "PARASUT_USERNAME", "PARASUT_PASSWORD", "PARASUT_COMPANY_ID",
     "PARASUT_REDIRECT_URI", "PARASUT_API_BASE_URL"}

-----------------------------------------------------------------------------
(* ParasutClient (services/parasut_integration.py) *)

\* stop_after_attempt(3) on _make_request.
StopAfterAttempt == 3

\* What the ledger answers to one request: 2xx, 429, another 4xx/5xx, or no
\* answer at all (httpx.RequestError).
HttpOutcomes == {"ok", "rate_limit", "status_error", "network"}

\* _get_token_from_cache: the cached token when settings.REDIS_ENABLED is set
\* and the cache holds one; every exception, the AttributeError of a missing
\* setting included, is swallowed and None returned.
get_token_from_cache(cache) ==
    IF "REDIS_ENABLED" \in SettingsFields /\ cache # None THEN cache ELSE None

\* _save_token_to_cache: the cache entry after the call (same try/except).
save_token_to_cache(cache, tok) ==
    IF "REDIS_ENABLED" \in SettingsFields THEN tok ELSE cache

\* _authenticate, every way one call can end, given the client's state.
\*   ok    - a token is returned (FALSE: ParasutAPIError is raised)
\*   exch  - POSTs sent to /oauth/token
\* A held token passes _is_token_valid or not as the clock decides, so both
\* branches are taken. The exchange runs inside `try`, whose `except
\* Exception` turns every failure (HTTP status, httpx.RequestError before
\* tenacity sees it, the RuntimeError of a client never opened) into
\* ParasutAPIError, which tenacity does not retry.
authenticate(open, tok, cache) ==
    LET cached == get_token_from_cache(cache)
        exchange ==
            IF ~open
            THEN {[ok |-> FALSE, token |-> tok, cache |-> cache, exch |-> 0]}
            ELSE {[ok |-> TRUE, token |-> t,
                   cache |-> save_token_to_cache(cache, t), exch |-> 1] : t \in Tokens}
                 \cup {[ok |-> FALSE, token |-> tok, cache |-> cache, exch |-> 1]}
    IN  IF cached # None
        THEN {[ok |-> TRUE, token |-> cached, cache |-> cache, exch |-> 0]}
        ELSE IF tok # None
             THEN {[ok |-> TRUE, token |-> tok, cache |-> cache, exch |-> 0]} \cup exchange
             ELSE exchange

\* _make_request from attempt n on, every way it can end.
\*   res   - "ok", or the exception that leaves the tenacity wrapper:
\*           "api_error" (ParasutAPIError), "runtime_error" (client not
\*           open), "retry_error" (tenacity.RetryError after the last attempt)
\*   id    - data.id of the answer
\*   exch, posts - token exchanges and requests sent, all attempts together
\* _get_headers runs before the `try`, so a failed authentication leaves at
\* once. ParasutRateLimitError and httpx.RequestError are the two exceptions
\* tenacity retries.
RECURSIVE make_request(_, _, _, _)
make_request(n, open, tok, cache) ==
    LET End(a, res, id, posts) ==
            [res |-> res, id |-> id, token |-> a.token, cache |-> a.cache,
             exch |-> a.exch, posts |-> posts]
        Attempt(a, h) ==
            CASE h = "ok" -> {End(a, "ok", id, 1) : id \in LedgerIds}
              [] h = "status_error" -> {End(a, "api_error", None, 1)}
              [] OTHER ->
                    IF n < StopAfterAttempt
                    THEN {[r EXCEPT !.exch = @ + a.exch, !.posts = @ + 1] :
                             r \in make_request(n + 1, open, a.token, a.cache)}
                    ELSE {End(a, "retry_error", None, 1)}
    IN  UNION { IF ~a.ok THEN {End(a, "api_error", None, 0)}
                ELSE IF ~open THEN {End(a, "runtime_error", None, 0)}
                ELSE UNION {Attempt(a, h) : h \in HttpOutcomes}
              : a \in authenticate(open, tok, cache) }

\* export_invoice, every way it can end. raised: ParasutAPIError leaves the
\* call (raised as such, or wrapped by `except Exception`); otherwise result
\* is the dict it returns.
export_invoice(inv, open, tok, cache) ==
    IF inv.extracted_data = NoData
    THEN {[raised |-> TRUE, result |-> NoData, token |-> tok, cache |-> cache,
           exch |-> 0, posts |-> 0]}
    ELSE {[raised |-> r.res # "ok",
           result |-> IF r.res = "ok"
                      THEN [success |-> TRUE, parasut_invoice_id |-> r.id]
                      ELSE NoData,
           token |-> r.token, cache |-> r.cache, exch |-> r.exch, posts |-> r.posts]
          : r \in make_request(1, open, tok, cache)}

\* dict.get(key): None when the key is missing.
DictGet(d, k) == IF k \in DOMAIN d THEN d[k] ELSE None

-----------------------------------------------------------------------------
(* The handlers of api/v1/invoices.py *)

\* Mutant of found: the query does not filter on the user.
found_any_user(inv, user) == inv.exists

\* select(Invoice).where(Invoice.id == invoice_id, Invoice.user_id ==
\* current_user.id) ... scalar_one_or_none(): the row, for its owner only.
found(inv, user) == inv.exists /\ inv.user_id = user

\* What `last` keeps of a request: the operation, the requesting user, the
\* HTTP status answered, and the token exchanges and ledger requests sent
\* while handling it.
Handled(op, user, code, exch, posts) ==
    [op |-> op, user |-> user, code |-> code, exch |-> exch, posts |-> posts]

\* POST /upload. `stored` is whether lines 43-64 got through: the content
\* type and size checks, the storage path and the upload to storage. When
\* they do not, the request ends in an HTTP error before any row is written.
\* (Line 58 asks class uuid.UUID for uuid4, which it does not have, so as
\* written every request ends there; the other outcome is kept so that the
\* rest of the handler, lines 66-90, is covered.) `dispatched` is whether
\* process_invoice_task.delay() returned; when it raises, the row just
\* committed as uploaded is committed again as failed with a message.
upload_invoice(user, stored, dispatched) ==
    /\ ~invoice.exists
    /\ IF ~stored
       THEN /\ invoice' = invoice
            /\ last' = Handled("upload", user, 500, 0, 0)
       ELSE /\ invoice' =
                 [exists |-> TRUE, user_id |-> user,
                  status |-> IF dispatched THEN UPLOADED ELSE FAILED,
                  extracted_data |-> NoData,
                  error_message |-> IF dispatched THEN None ELSE "task not started",
                  exported_to_parasut |-> FALSE, parasut_invoice_id |-> None,
                  exported_at |-> None]
            /\ last' = Handled("upload", user, 201, 0, 0)
    /\ UNCHANGED <<ledgerVars, serviceVars>>

\* Mutant of update_rejects: the guard reads the exported_to_parasut flag,
\* which no handler sets, instead of the status.
update_rejects_by_flag(inv) == inv.exported_to_parasut

\* update_invoice, lines 226-230: the only status that refuses an edit.
update_rejects(inv) == inv.status = EXPORTED

\* update_invoice, lines 237-250: whether the edit `ed` makes the block
\* raise. An edit with a subtotal and a kdv_rate calls
\* calculator.calculate_kdv, a method KDVCalculator does not define: the
\* AttributeError is caught by the handler's `except Exception`.
update_raises(ed) ==
    /\ ed # NoData
    /\ Truthy(ed, "subtotal") /\ Truthy(ed, "kdv_rate")
    /\ "calculate_kdv" \notin KDVCalculatorMethods

\* update_invoice, lines 234-254: the extracted_data after the edit `ed`.
\* The block is skipped for an unset, null or empty edit; otherwise the edit
\* is merged into the stored dict (`invoice.extracted_data or {}`).
update_extracted(inv, ed) ==
    IF ed = NoData THEN inv.extracted_data ELSE DictUpdate(inv.extracted_data, ed)

\* update_invoice, lines 257-259: every other field of the request is
\* written to the row as given; InvoiceUpdate has one, status.
update_status(inv, st) == IF st = Unset THEN inv.status ELSE st

\* PUT /{invoice_id}.
update_invoice(user, ed, st) ==
    /\ IF ~found(invoice, user)
       THEN /\ invoice' = invoice
            /\ last' = Handled("update", user, 404, 0, 0)
       ELSE IF update_rejects(invoice)
       THEN /\ invoice' = invoice
            /\ last' = Handled("update", user, 400, 0, 0)
       ELSE IF update_raises(ed)
       THEN \* db.rollback()
            /\ invoice' = invoice
            /\ last' = Handled("update", user, 500, 0, 0)
       ELSE /\ invoice' = [invoice EXCEPT
                             !.extracted_data = update_extracted(invoice, ed),
                             !.status = update_status(invoice, st)]
            /\ last' = Handled("update", user, 200, 0, 0)
    /\ UNCHANGED <<ledgerVars, serviceVars>>

\* DELETE /{invoice_id}.
delete_invoice(user) ==
    /\ IF ~found(invoice, user)
       THEN /\ invoice' = invoice
            /\ last' = Handled("delete", user, 404, 0, 0)
       ELSE /\ invoice' = Absent
            /\ last' = Handled("delete", user, 204, 0, 0)
    /\ UNCHANGED <<ledgerVars, serviceVars>>

\* Mutant of export_rejects: the status guards are missing, only the check
\* for extracted_data is left.
export_rejects_data_only(inv) == inv.extracted_data = NoData

\* export_to_parasut, lines 345-361: the guards before the ledger is called.
export_rejects(inv) ==
    \/ inv.status # COMPLETED
    \/ inv.status = EXPORTED
    \/ inv.extracted_data = NoData

\* export_to_parasut, lines 366-368: the row after a successful export_invoice
\* that returned `result`.
export_commit(inv, result) ==
    [inv EXCEPT !.status = EXPORTED,
                !.parasut_invoice_id = DictGet(result, "parasut_id"),
                !.exported_at = "now"]

\* Mutant of export_failed: the failure is written to the row.
export_failed_marks_row(inv) ==
    [inv EXCEPT !.status = FAILED, !.error_message = "export failed"]

\* export_to_parasut, lines 382-387: the row after export_invoice raised
\* ParasutAPIError. Nothing was assigned before the call and nothing is
\* committed.
export_failed(inv) == inv

\* POST /{invoice_id}/export.
export_to_parasut(user) ==
    /\ IF ~found(invoice, user)
       THEN /\ invoice' = invoice
            /\ last' = Handled("export", user, 404, 0, 0)
            /\ UNCHANGED ledgerVars
       ELSE IF export_rejects(invoice)
       THEN /\ invoice' = invoice
            /\ last' = Handled("export", user, 400, 0, 0)
            /\ UNCHANGED ledgerVars
       ELSE \E r \in export_invoice(invoice, client_open, token, redis_token) :
            /\ token' = r.token
            /\ redis_token' = r.cache
            /\ UNCHANGED client_open
            /\ IF r.raised
               THEN /\ invoice' = export_failed(invoice)
                    /\ last' = Handled("export", user, 502, r.exch, r.posts)
               ELSE /\ invoice' = export_commit(invoice, r.result)
                    /\ last' = Handled("export", user, 200, r.exch, r.posts)
    /\ UNCHANGED serviceVars

\* ParasutClient.__aenter__ / __aexit__: the httpx client is created and
\* closed by whoever owns the module-level parasut_client; the handlers use
\* it as they find it. Until it is entered, the `client` property raises
\* RuntimeError.
aenter ==
    /\ ~client_open
    /\ client_open' = TRUE
    /\ last' = Handled("aenter", None, 0, 0, 0)
    /\ UNCHANGED <<invoice, token, redis_token, serviceVars>>

aexit ==
    /\ client_open
    /\ client_open' = FALSE
    /\ last' = Handled("aexit", None, 0, 0, 0)
    /\ UNCHANGED <<invoice, token, redis_token, serviceVars>>

-----------------------------------------------------------------------------
(* The processing job (process_invoice_task), from the lifecycle of the    *)
(* design document: section 4.4.                                           *)

\* Uploaded -> Processing, and the resubmission of a Failed invoice.
begin_processing ==
    /\ invoice.exists
    /\ invoice.status \in {UPLOADED, FAILED}
    /\ invoice' = [invoice EXCEPT !.status = PROCESSING]
    /\ last' = Handled("job", None, 0, 0, 0)
    /\ UNCHANGED <<ledgerVars, serviceVars>>

\* Processing -> Completed with the reconciled record.
complete_processing ==
    /\ invoice.exists
    /\ invoice.status = PROCESSING
    /\ invoice' = [invoice EXCEPT !.status = COMPLETED, !.extracted_data = JobData]
    /\ last' = Handled("job", None, 0, 0, 0)
    /\ UNCHANGED <<ledgerVars, serviceVars>>

\* Processing -> Failed with the cause; no financial data is stored.
mark_failed ==
    /\ invoice.exists
    /\ invoice.status = PROCESSING
    /\ invoice' = [invoice EXCEPT !.status = FAILED, !.error_message = "cause"]
    /\ last' = Handled("job", None, 0, 0, 0)
    /\ UNCHANGED <<ledgerVars, serviceVars>>

-----------------------------------------------------------------------------
(* The invoice lifecycle *)

NoRecord == [subtotal |-> 0, total_kdv |-> 0, total_amount |-> 0, line_items |-> << >>]

\* No extraction has been asked for.
ExtractionIdle ==
    [pc |-> "idle", via_fallback |-> FALSE, text |-> << >>, max_retries |-> 0,
     api_key |-> FALSE, attempt |-> 0, calls |-> 0, outcome |-> "none",
     initial_temperature |-> 0, temperature |-> 0,
     data |-> NoRecord, result |-> NoRecord, error |-> NoData, fallback |-> NoData]

\* No method of KDVCalculator has been called.
KdvIdle == [op |-> "none"]

\* The workers that handle export requests at the same time.
Workers == {1, 2}

\* A worker with no request.
WorkerIdle ==
    [pc |-> "idle", user |-> None, row |-> Absent, raised |-> FALSE,
     result |-> NoData, exch |-> 0, posts |-> 0]

\* No export request is in flight and the ledger has created nothing.
ExportsIdle == [worker |-> [w \in Workers |-> WorkerIdle], created |-> 0]

\* No export has been handed to the ledger client.
RequestIdle ==
    [pc |-> "idle", has_data |-> FALSE, attempt |-> 0, posts |-> 0, exch |-> 0,
     rate_limited |-> 0, outcome |-> "none", auth_failure |-> None, http_status |-> NoStatus, body |-> NoBody,
     res |-> "none", id |-> None,
     raised |-> "none", status_code |-> NoStatus, response_data |-> None,
     message_body |-> None]

Init ==
    /\ invoice = Absent
    /\ client_open = FALSE
    /\ token = None
    /\ redis_token = None
    /\ last = Handled("none", None, 0, 0, 0)
    /\ recon_in = NoRecord
    /\ recon_out = NoRecord
    /\ recon_done = FALSE
    /\ extraction = ExtractionIdle
    /\ now = 0
    /\ token_expires_at = NoExpiry
    /\ redis_expires_at = NoExpiry
    /\ request = RequestIdle
    /\ kdv = KdvIdle
    /\ exports = ExportsIdle

Next ==
    \/ \E u \in Users, stored \in BOOLEAN, dispatched \in BOOLEAN :
          upload_invoice(u, stored, dispatched)
    \/ \E u \in Users, ed \in EditDicts, st \in StatusInputs : update_invoice(u, ed, st)
    \/ \E u \in Users : delete_invoice(u)
    \/ \E u \in Users : export_to_parasut(u)
    \/ aenter
    \/ aexit
    \/ begin_processing
    \/ complete_processing
    \/ mark_failed

Spec == Init /\ [][Next]_vars

-----------------------------------------------------------------------------
(* Claims about the invoice lifecycle, checked under Spec *)

\* The last step handled request `op` of the invoice's owner.
OwnerDid(op) == last.op = op /\ invoice.exists /\ last.user = invoice.user_id

\* C1: in every reachable state, an invoice whose status is exported has its
\* ledger invoice id (parasut_invoice_id) set.
C1_ExportedHasLedgerId ==
    (invoice.exists /\ invoice.status = EXPORTED) => invoice.parasut_invoice_id # None

\* C2: an export request for an invoice that is already exported is rejected,
\* and handling it sends nothing to the ledger: no token exchange, no export
\* request; the client's token and the row stay as they were.
C2_ExportedExportRejected ==
    [][ (invoice.exists /\ invoice.status = EXPORTED /\ last'.op = "export")
        => /\ last'.code \in {400, 404}
           /\ (last'.user = invoice.user_id => last'.code = 400)
           /\ last'.exch = 0 /\ last'.posts = 0
           /\ invoice' = invoice
           /\ UNCHANGED ledgerVars ]_vars

\* C2 witness: an invoice exported through the ledger, whose owner's second
\* export request was just refused.
C2_Witness ==
    /\ OwnerDid("export") /\ last.code = 400
    /\ invoice.status = EXPORTED /\ invoice.exported_at # None

\* The status changes of the lifecycle graph.
LifecycleEdges ==
    { <<UPLOADED, PROCESSING>>, <<PROCESSING, COMPLETED>>, <<PROCESSING, FAILED>>,
      <<FAILED, PROCESSING>>, <<COMPLETED, EXPORTED>> }

\* C3: an invoice is created as uploaded, and every change of its status is
\* an edge of the lifecycle graph. (A request that creates the row and moves
\* it on in one go is held to the same graph.)
C3_LifecycleGraph ==
    [][ /\ (~invoice.exists /\ invoice'.exists)
              => \/ invoice'.status = UPLOADED
                 \/ <<UPLOADED, invoice'.status>> \in LifecycleEdges
        /\ (invoice.exists /\ invoice'.exists /\ invoice'.status # invoice.status)
              => <<invoice.status, invoice'.status>> \in LifecycleEdges ]_vars

\* C4: the status becomes exported only by an export request that found the
\* invoice completed with extracted_data present and whose ledger call
\* succeeded, and that step sets exported_at.
C4_ExportedOnlyByExport ==
    [][ (invoice'.exists /\ invoice'.status = EXPORTED
         /\ ~(invoice.exists /\ invoice.status = EXPORTED))
        => /\ last'.op = "export" /\ last'.code = 200 /\ last'.posts >= 1
           /\ invoice.exists /\ invoice.status = COMPLETED
           /\ invoice.extracted_data # NoData
           /\ invoice'.exported_at # None ]_vars

\* C5: once an invoice is exported, every later update or export request is
\* refused and leaves the stored row (status, extracted_data, ledger id and
\* the rest) unchanged.
C5_ExportedIsFrozen ==
    [][ (invoice.exists /\ invoice.status = EXPORTED /\ last'.op \in {"update", "export"})
        => /\ last'.code \in {400, 404}
           /\ invoice' = invoice ]_vars

\* C5 witness: an invoice exported through the ledger, whose owner's update
\* request was just refused.
C5_Witness ==
    /\ OwnerDid("update") /\ last.code = 400
    /\ invoice.status = EXPORTED /\ invoice.exported_at # None

\* C6: update_invoice changes extracted_data only while the status is
\* completed or failed; in status uploaded, processing or exported the
\* extracted_data is left unchanged.
C6_EditOnlyCompletedOrFailed ==
    [][ (last'.op = "update" /\ invoice.exists
         /\ invoice.status \notin {COMPLETED, FAILED})
        => invoice'.extracted_data = invoice.extracted_data ]_vars

\* C7: in every reachable state, extracted_data is non-null only if the
\* status is completed or exported.
C7_DataOnlyCompletedOrExported ==
    (invoice.exists /\ invoice.extracted_data # NoData)
        => invoice.status \in {COMPLETED, EXPORTED}

\* C8: in every reachable state, a failed invoice carries an error message.
C8_FailedHasCause ==
    (invoice.exists /\ invoice.status = FAILED) => invoice.error_message # None

-----------------------------------------------------------------------------
(* Reconciliation on its own: every bounded record that passes the schema  *)
(* of ExtractedInvoiceData is handed to _validate_and_recalculate once.    *)

MaxItems == 2
MaxQty == 2

UnitPrices == {75}
KdvRates == {10, 20}

\* How far the model's stated line total is from quantity * unit_price.
LineErrors == {-2, 0, 1}

\* How far a stated document total is from the sum it should equal.
DocErrors == {0, 100, 101}

\* InvoiceLineItem: quantity, unit_price, total >= 0 and 0 <= kdv_rate <= 100.
LineItems ==
    { [quantity |-> q, unit_price |-> p, kdv_rate |-> r, total |-> q * p + e] :
        q \in 1..MaxQty, p \in UnitPrices, r \in KdvRates, e \in LineErrors }

ItemSeqs == UNION { [1..n -> LineItems] : n \in 1..MaxItems }

\* S: the sum of quantity * unit_price over the line items.
RECURSIVE SumLines(_)
SumLines(items) ==
    IF items = << >> THEN 0
    ELSE Head(items).quantity * Head(items).unit_price + SumLines(Tail(items))

\* T: the sum over the line items of the forward tax of quantity * unit_price
\* at the line's rate.
RECURSIVE SumTax(_)
SumTax(items) ==
    IF items = << >> THEN 0
    ELSE calculate_kdv_amount(Head(items).quantity * Head(items).unit_price,
                              Head(items).kdv_rate)
         + SumTax(Tail(items))

\* ExtractedInvoiceData built from the items and the three errors of the
\* stated document totals.
ReconInput(items, e1, e2, e3) ==
    [line_items |-> items,
     subtotal |-> SumLines(items) + e1,
     total_kdv |-> SumTax(items) + e2,
     total_amount |-> SumLines(items) + SumTax(items) + e3]

InitRecon ==
    /\ invoice = Absent
    /\ client_open = FALSE
    /\ token = None
    /\ redis_token = None
    /\ last = Handled("none", None, 0, 0, 0)
    /\ \E items \in ItemSeqs, e1 \in DocErrors, e2 \in DocErrors, e3 \in DocErrors :
          recon_in = ReconInput(items, e1, e2, e3)
    /\ recon_out = NoRecord
    /\ recon_done = FALSE
    /\ extraction = ExtractionIdle
    /\ now = 0
    /\ token_expires_at = NoExpiry
    /\ redis_expires_at = NoExpiry
    /\ request = RequestIdle
    /\ kdv = KdvIdle
    /\ exports = ExportsIdle

reconcile ==
    /\ ~recon_done
    /\ recon_out' = validate_and_recalculate(recon_in)
    /\ recon_done' = TRUE
    /\ UNCHANGED <<invoice, exports, ledgerVars, last, recon_in, kdv, extraction, clockVars, request>>

NextRecon == reconcile

SpecRecon == InitRecon /\ [][NextRecon]_vars

\* C9: after reconciliation, every line item whose stated total differs from
\* quantity * unit_price by more than 0.01 carries quantity * unit_price as
\* its total, and every other line item keeps its stated total.
C9_LineTotalsRecomputed ==
    recon_done =>
        /\ Len(recon_out.line_items) = Len(recon_in.line_items)
        /\ \A i \in 1..Len(recon_in.line_items) :
              LET item == recon_in.line_items[i]
                  product == item.quantity * item.unit_price
              IN  recon_out.line_items[i].total =
                     IF Abs(item.total - product) > LineTolerance
                     THEN product ELSE item.total

\* C10: after reconciliation of a record with at least one line item, each of
\* subtotal, total_kdv and total_amount is the stated value when that is
\* within 1.00 of S, T and S + T respectively, and otherwise exactly S, T and
\* S + T.
C10_DocumentTotalsRecomputed ==
    (recon_done /\ recon_in.line_items # << >>) =>
        LET S == SumLines(recon_in.line_items)
            T == SumTax(recon_in.line_items)
            Kept(stated, sum) == IF Abs(stated - sum) <= DocTolerance THEN stated ELSE sum
        IN  /\ recon_out.subtotal = Kept(recon_in.subtotal, S)
            /\ recon_out.total_kdv = Kept(recon_in.total_kdv, T)
            /\ recon_out.total_amount = Kept(recon_in.total_amount, S + T)

-----------------------------------------------------------------------------
(* AIExtractionService.extract_invoice_data and extract_with_fallback       *)
(* (services/ai_extraction_service.py), one language-model call per step.  *)

MaxTextLen == 2
MaxRetries == 2

\* max_retries: int = 2, the default extract_with_fallback runs with.
DefaultMaxRetries == 2

\* OCR text: a string of blanks and other characters.
Texts == UNION { [1..n -> {" ", "x"}] : n \in 0..MaxTextLen }

\* str.strip(): the text without its leading and trailing whitespace.
RECURSIVE lstrip(_)
lstrip(t) == IF t # << >> /\ Head(t) = " " THEN lstrip(Tail(t)) ELSE t

RECURSIVE rstrip(_)
rstrip(t) ==
    IF t # << >> /\ t[Len(t)] = " " THEN rstrip(SubSeq(t, 1, Len(t) - 1)) ELSE t

strip(t) == rstrip(lstrip(t))

\* Mutant of text_is_empty: the test for whitespace-only text is missing.
text_is_empty_no_strip(t) == t = << >>

\* Line 182: `not ocr_text or not ocr_text.strip()`.
text_is_empty(t) == t = << >> \/ strip(t) = << >>

\* Temperatures in tenths. initial_temperature: float = 0.1 is the default
\* extract_with_fallback runs with (line 180); a caller may pass another.
DefaultInitialTemperature == 1

\* The step of line 191, `attempt * 0.2`, and the cap of line 192.
TemperatureStep == 2
TemperatureCap == 10

\* Initial temperatures handed in: the default, one that meets the cap on a
\* later pass, and one above the cap from the start.
InitialTemperatures == {DefaultInitialTemperature, 7, 12}

\* Mutant of temperature_at: line 192 is missing.
temperature_at_uncapped(initial_temperature, attempt) ==
    initial_temperature + attempt * TemperatureStep

\* Lines 191-192: the temperature of pass `attempt`.
temperature_at(initial_temperature, attempt) ==
    LET temperature == initial_temperature + attempt * TemperatureStep
    IN  IF temperature <= TemperatureCap THEN temperature ELSE TemperatureCap

\* How one pass of the loop can fail:
\*   no_client  - the `client` property raises ValueError (no OPENAI_API_KEY),
\*                before any call is made
\*   api_error  - chat.completions.create raises
\*   empty      - the response has no content (ValueError, line 210)
\*   malformed  - json.loads raises JSONDecodeError
\*   invalid    - ExtractedInvoiceData(**parsed_data) raises (a field breaks
\*                its constraint, or the JSON is not an object)
CallFailures == {"api_error", "empty", "malformed", "invalid"}
AttemptFailures == CallFailures \cup {"no_client"}

\* The records a response that passes the schema can hold: no line items or
\* one, with stated totals that agree with the lines or are off.
ResponseItems == {<< >>} \cup { <<i>> : i \in LineItems }
ResponseRecord(items, e1, e2, e3) == ReconInput(items, e1, e2, e3)

\* Mutant of last_attempt: the loop gives up one pass early.
last_attempt_early(attempt, max_retries) == attempt + 1 >= max_retries

\* Mutant of last_attempt: the test is off by one the other way, so that only
\* the end of the range stops the loop.
last_attempt_late(attempt, max_retries) == attempt = max_retries + 1

\* Lines 225 and 231: `attempt == max_retries`.
last_attempt(attempt, max_retries) == attempt = max_retries

\* Line 190, `for attempt in range(max_retries + 1)`: there is a next pass.
loop_goes_on(attempt, max_retries) == attempt + 1 < max_retries + 1

\* Line 235, the ValueError raised when the range is used up: raised outside
\* any `except` block, it carries no other exception.
exhausted_error ==
    [type |-> "ValueError", message |-> "AI extraction failed after all retries",
     message_error |-> None, context |-> None]

\* The ValueError raised on the last pass (lines 226 and 232). Raised inside
\* the `except` block, it has the caught exception as its __context__; the
\* message embeds str(e) except in the JSONDecodeError branch.
extraction_error(failure) ==
    [type |-> "ValueError",
     message |-> IF failure = "malformed" THEN "Failed to parse AI response as JSON"
                 ELSE "Failed to extract invoice data",
     message_error |-> IF failure = "malformed" THEN None ELSE failure,
     context |-> failure]

\* model_dump(mode='json') of a Decimal: its string.
Str(n) == <<"str", n>>

model_dump(d) ==
    [subtotal |-> Str(d.subtotal), total_kdv |-> Str(d.total_kdv),
     total_amount |-> Str(d.total_amount),
     line_items |-> [i \in 1..Len(d.line_items) |->
                        [f \in DOMAIN d.line_items[i] |-> Str(d.line_items[i][f])]]]

\* The record of the `except` branch of extract_with_fallback (lines 295-311).
ZeroedData ==
    [subtotal |-> Str(0), total_kdv |-> Str(0), total_amount |-> Str(0),
     line_items |-> << >>]

\* Mutant of fallback_result: the failure branch does not ask for review.
fallback_result_no_review(raised, result) ==
    IF raised
    THEN [success |-> FALSE, data |-> ZeroedData, confidence |-> "low",
          requires_review |-> FALSE]
    ELSE [success |-> TRUE, data |-> model_dump(result), confidence |-> "high",
          requires_review |-> FALSE]

\* extract_with_fallback, lines 280-314: what it returns when
\* extract_invoice_data raised, and when it returned `result`.
fallback_result(raised, result) ==
    IF raised
    THEN [success |-> FALSE, data |-> ZeroedData, confidence |-> "low",
          requires_review |-> TRUE]
    ELSE [success |-> TRUE, data |-> model_dump(result), confidence |-> "high",
          requires_review |-> FALSE]

\* The state after extract_invoice_data has returned or raised: called
\* through extract_with_fallback, the wrapper's `try` turns either into the
\* dict it returns.
ended(e) ==
    IF e.via_fallback
    THEN [e EXCEPT !.fallback = fallback_result(e.pc = "raised", e.result)]
    ELSE e

\* extract_invoice_data is entered (lines 176-188), directly with the
\* caller's max_retries or through extract_with_fallback with the default.
\* api_key is whether settings.OPENAI_API_KEY is set.
extract_invoice_data(text, max_retries, initial_temperature, api_key, via_fallback) ==
    /\ extraction.pc = "idle"
    /\ via_fallback => /\ max_retries = DefaultMaxRetries
                       /\ initial_temperature = DefaultInitialTemperature
    /\ LET e == [ExtractionIdle EXCEPT !.via_fallback = via_fallback, !.text = text,
                                       !.max_retries = max_retries, !.api_key = api_key,
                                       !.initial_temperature = initial_temperature]
       IN  extraction' =
              IF text_is_empty(text)
              THEN ended([e EXCEPT !.pc = "raised",
                                   !.error = [type |-> "ValueError",
                                              message |-> "OCR text is empty",
                                              message_error |-> None,
                                              context |-> None]])
              ELSE [e EXCEPT !.pc = "loop"]
    /\ UNCHANGED <<invoice, exports, ledgerVars, last, reconVars, kdv, clockVars, request>>

\* One pass of the loop (lines 190-233) that fails with `failure`: on the
\* last pass ValueError is raised, otherwise the loop sleeps and goes on.
attempt_fails(failure) ==
    /\ extraction.pc = "loop"
    /\ IF extraction.api_key THEN failure \in CallFailures ELSE failure = "no_client"
    /\ LET e == [extraction EXCEPT !.outcome = failure,
                                   !.temperature =
                                       temperature_at(extraction.initial_temperature,
                                                      extraction.attempt),
                                   !.calls = IF failure = "no_client" THEN @ ELSE @ + 1]
       IN  extraction' =
              IF last_attempt(e.attempt, e.max_retries)
              THEN ended([e EXCEPT !.pc = "raised", !.error = extraction_error(failure)])
              ELSE IF loop_goes_on(e.attempt, e.max_retries)
              THEN [e EXCEPT !.attempt = @ + 1]
              ELSE ended([e EXCEPT !.pc = "raised", !.error = exhausted_error])
    /\ UNCHANGED <<invoice, exports, ledgerVars, last, reconVars, kdv, clockVars, request>>

\* One pass of the loop whose response parses and passes the schema as
\* `data`: the reconciled record is returned (lines 214-221).
attempt_succeeds(data) ==
    /\ extraction.pc = "loop"
    /\ extraction.api_key
    /\ extraction' =
          ended([extraction EXCEPT !.outcome = "valid", !.calls = @ + 1,
                                   !.temperature =
                                       temperature_at(extraction.initial_temperature,
                                                      extraction.attempt),
                                   !.data = data,
                                   !.result = validate_and_recalculate(data),
                                   !.pc = "returned"])
    /\ UNCHANGED <<invoice, exports, ledgerVars, last, reconVars, kdv, clockVars, request>>

NextExtract ==
    \/ \E text \in Texts, max_retries \in 0..MaxRetries,
          initial_temperature \in InitialTemperatures, api_key \in BOOLEAN,
          via_fallback \in BOOLEAN :
          extract_invoice_data(text, max_retries, initial_temperature, api_key, via_fallback)
    \/ \E failure \in AttemptFailures : attempt_fails(failure)
    \/ \E items \in ResponseItems, e1 \in DocErrors, e2 \in DocErrors, e3 \in DocErrors :
          attempt_succeeds(ResponseRecord(items, e1, e2, e3))

SpecExtract == Init /\ [][NextExtract]_vars

\* Sum of the stated totals of the line items.
RECURSIVE SumTotals(_)
SumTotals(items) ==
    IF items = << >> THEN 0 ELSE Head(items).total + SumTotals(Tail(items))

\* C11: every record extract_invoice_data returns is self-consistent: its
\* subtotal is within 1.00 of the sum of its line totals and its total_amount
\* within 1.00 of subtotal + total_kdv, whatever the response held, a
\* response without line items included.
C11_ReturnedRecordConsistent ==
    extraction.pc = "returned" =>
        /\ Abs(extraction.result.subtotal - SumTotals(extraction.result.line_items))
              <= DocTolerance
        /\ Abs(extraction.result.total_amount
               - (extraction.result.subtotal + extraction.result.total_kdv))
              <= DocTolerance

\* C12: for non-empty input the language model is called one call at a time
\* and at most max_retries + 1 times; a call after the first is made only
\* when the call before it failed; a failed pass that is not the last is
\* followed by the next pass; and the first response that parses and passes
\* the schema ends the call, which returns that response's record reconciled.
C12_RetryUntilFirstValid ==
    [][ /\ extraction'.calls \in {extraction.calls, extraction.calls + 1}
        /\ extraction'.calls <= extraction'.max_retries + 1
        /\ (extraction'.calls = extraction.calls + 1 /\ extraction.calls >= 1)
              => (extraction.pc = "loop" /\ extraction.outcome \in CallFailures)
        /\ (extraction.pc = "loop" /\ extraction'.outcome \in AttemptFailures
            /\ extraction.attempt < extraction.max_retries)
              => (extraction'.pc = "loop" /\ extraction'.attempt = extraction.attempt + 1)
        /\ (extraction.pc = "loop" /\ extraction'.outcome = "valid")
              => /\ extraction'.pc = "returned"
                 /\ extraction'.result = validate_and_recalculate(extraction'.data)
                 /\ extraction'.calls = extraction.attempt + 1
        /\ extraction.pc = "returned" => extraction' = extraction ]_vars

\* C12 witness: max_retries = 2, the first two calls failed and the third
\* returned a valid record with a line item.
C12_Witness ==
    /\ extraction.pc = "returned" /\ extraction.max_retries = 2
    /\ extraction.attempt = 2 /\ extraction.calls = 3
    /\ extraction.data.line_items # << >>

\* A text of blanks only, the empty text included.
IsBlank(t) == \A i \in 1..Len(t) : t[i] = " "

\* C13: for non-empty input extract_invoice_data raises only from the pass
\* numbered max_retries (the max_retries + 1-th), every pass up to it having
\* failed, and the error raised carries the failure of that last pass: as its
\* context, and in its message unless the failure was malformed JSON, for
\* which the message says so.
C13_RaisesOnlyWhenExhausted ==
    [][ (extraction.pc = "loop" /\ extraction'.pc = "raised")
        => /\ extraction.attempt = extraction.max_retries
           /\ extraction'.attempt + 1 = extraction.max_retries + 1
           /\ extraction'.outcome \in AttemptFailures
           /\ extraction'.error.context = extraction'.outcome
           /\ IF extraction'.outcome = "malformed"
              THEN extraction'.error.message = "Failed to parse AI response as JSON"
              ELSE extraction'.error.message_error = extraction'.outcome ]_vars

\* C13 witness: three passes made with max_retries = 2, the last one failed
\* on a schema violation, and the error is the caller's.
C13_Witness ==
    /\ extraction.pc = "raised" /\ ~extraction.via_fallback
    /\ extraction.max_retries = 2 /\ extraction.attempt = 2 /\ extraction.calls = 3
    /\ extraction.outcome = "invalid"

\* C14: called with empty or whitespace-only text, extract_invoice_data
\* raises the input error at once and no language-model call is made.
C14_EmptyInputRejected ==
    (extraction.pc # "idle" /\ IsBlank(extraction.text))
        => /\ extraction.pc = "raised"
           /\ extraction.error.message = "OCR text is empty"
           /\ extraction.calls = 0 /\ extraction.attempt = 0

\* C14 witness: a text of two blanks was refused, with a usable client.
C14_Witness ==
    /\ extraction.pc = "raised" /\ extraction.text = <<" ", " ">>
    /\ extraction.api_key /\ ~extraction.via_fallback

\* C15: extract_with_fallback always returns: when the extraction raised, the
\* result has success false, requires_review true and the zeroed record
\* without line items; when it returned, the result has success true,
\* requires_review false and the extracted record.
C15_FallbackNeverRaises ==
    (extraction.via_fallback /\ extraction.pc \in {"returned", "raised"})
        => /\ extraction.fallback # NoData
           /\ extraction.pc = "raised"
                 => /\ extraction.fallback.success = FALSE
                    /\ extraction.fallback.requires_review = TRUE
                    /\ extraction.fallback.data.line_items = << >>
                    /\ \A f \in {"subtotal", "total_kdv", "total_amount"} :
                          extraction.fallback.data[f] = Str(0)
           /\ extraction.pc = "returned"
                 => /\ extraction.fallback.success = TRUE
                    /\ extraction.fallback.requires_review = FALSE
                    /\ extraction.fallback.data = model_dump(extraction.result)

\* C15 witness: through extract_with_fallback, all three passes failed.
C15_Witness ==
    /\ extraction.via_fallback /\ extraction.pc = "raised"
    /\ extraction.attempt = 2 /\ extraction.calls = 3

-----------------------------------------------------------------------------
(* ParasutClient.export_invoice and _make_request, one attempt per step,   *)
(* with the clock that decides whether the held token is still good.       *)

MaxTime == 3

\* timedelta(minutes=5) of _is_token_valid.
ValidityMargin == 5

\* timedelta(hours=2), the life _authenticate gives a token found in the cache.
CachedLifetime == 120

\* expires_in of a token response, in minutes. The ledger grants 7200 s; the
\* lives here are short so that a token nears its expiry while the clock
\* runs, and longer than the margin.
TokenLifetimes == {6, 8}

\* Status codes of a 4xx/5xx answer other than 429.
ErrorStatusCodes == {400, 503}

\* Bodies of such an answer: <<"json", v>> is JSON text that parses to v,
\* <<"text", v>> is text v that is not JSON.
ErrorBodies == {<<"json", "errors">>, <<"text", "Bad Gateway">>}

\* Mutant of is_token_valid: the five minutes are not taken off.
is_token_valid_no_margin(tok, exp, t) == tok # None /\ exp # NoExpiry /\ t < exp

\* _is_token_valid at time t.
is_token_valid(tok, exp, t) == tok # None /\ exp # NoExpiry /\ t < exp - ValidityMargin

\* The 60 seconds _save_token_to_cache takes off expires_in (line 82), in
\* minutes.
CacheMargin == 1

\* Lives of an entry some other holder of the cache gives it.
CacheLifetimes == {2, 120}

\* The shared cache entry as the ledger steps see it.
CacheEntry(tok, exp) == [token |-> tok, expires |-> exp]

\* redis_client.get("parasut:access_token") at time t (line 68): the token of
\* the entry, unless there is none or its time-to-live is over.
redis_get(entry, t) ==
    IF entry.token # None /\ t < entry.expires THEN entry.token ELSE None

\* Mutant of save_token_to_cache_at: the entry is written whatever the
\* settings hold.
save_token_to_cache_always(entry, tok, expires_in, t) ==
    CacheEntry(tok, t + expires_in - CacheMargin)

\* _save_token_to_cache(token, expires_in) at time t (lines 76-87): setex
\* with expires_in - 60 when settings.REDIS_ENABLED is set; the
\* AttributeError of the missing setting is swallowed at line 86 and the
\* entry stays as it is.
save_token_to_cache_at(entry, tok, expires_in, t) ==
    IF "REDIS_ENABLED" \in SettingsFields
    THEN CacheEntry(tok, t + expires_in - CacheMargin)
    ELSE entry

\* How a token exchange that is sent can fail: the ledger refuses it with a
\* JSON body or with a body that is not JSON, or the transport fails
\* (httpx.RequestError).
ExchangeFailures == {"status_json", "status_text", "network"}

\* Mutant of exchange_raises: the transport failure leaves the body of
\* _authenticate as it is.
exchange_raises_unwrapped(failure) ==
    CASE failure = "status_json" -> "ParasutAPIError"
      [] failure = "status_text" -> "JSONDecodeError"
      [] failure = "network" -> "RequestError"

\* Lines 133-142: the exception that leaves the body of _authenticate when
\* the exchange fails. HTTPStatusError becomes ParasutAPIError, unless
\* e.response.json() at line 138 raises on a body that is not JSON; everything
\* else, httpx.RequestError included, is caught by `except Exception` and
\* becomes ParasutAPIError.
exchange_raises(failure) ==
    CASE failure = "status_json" -> "ParasutAPIError"
      [] failure = "status_text" -> "JSONDecodeError"
      [] failure = "network" -> "ParasutAPIError"

\* retry_if_exception_type(httpx.RequestError) on _authenticate, line 97.
authenticate_retry_if(exception) == exception = "RequestError"

\* The token exchange of _authenticate (lines 109-142) under its tenacity
\* wrapper (lines 94-98), from attempt n on, with the client open.
RECURSIVE exchange_token(_, _, _, _, _)
exchange_token(n, tok, exp, cache, t) ==
    {[ok |-> TRUE, error |-> None, failure |-> None, token |-> new,
      expires |-> t + life, cache |-> save_token_to_cache_at(cache, new, life, t),
      exch |-> 1] :
        new \in Tokens, life \in TokenLifetimes}
    \cup UNION {
        LET exception == exchange_raises(failure)
        IN  IF authenticate_retry_if(exception) /\ n < StopAfterAttempt
            THEN {[a EXCEPT !.exch = @ + 1] : a \in exchange_token(n + 1, tok, exp, cache, t)}
            ELSE {[ok |-> FALSE,
                   error |-> IF authenticate_retry_if(exception)
                             THEN "RetryError" ELSE exception,
                   failure |-> failure, token |-> tok, expires |-> exp,
                   cache |-> cache, exch |-> 1]}
        : failure \in ExchangeFailures }

\* _authenticate at time t, every way one call can end.
\*   ok      - a token is returned
\*   error   - the exception raised otherwise
\*   failure - what went wrong in the last exchange attempt
\*   exch    - POSTs sent to /oauth/token
\* With the client not open, self.client raises RuntimeError inside the
\* `try`, which line 140 turns into ParasutAPIError.
authenticate_at(open, tok, exp, cache, t) ==
    LET cached == get_token_from_cache(redis_get(cache, t))
    IN  IF cached # None
        THEN {[ok |-> TRUE, error |-> None, failure |-> None, token |-> cached,
               expires |-> t + CachedLifetime, cache |-> cache, exch |-> 0]}
        ELSE IF is_token_valid(tok, exp, t)
        THEN {[ok |-> TRUE, error |-> None, failure |-> None, token |-> tok,
               expires |-> exp, cache |-> cache, exch |-> 0]}
        ELSE IF ~open
        THEN {[ok |-> FALSE, error |-> "ParasutAPIError", failure |-> "not_open",
               token |-> tok, expires |-> exp, cache |-> cache, exch |-> 0]}
        ELSE exchange_token(1, tok, exp, cache, t)

\* Mutant of retry_if: only transport failures are retried.
retry_if_network_only(exception) == exception = "RequestError"

\* Mutant of retry_if: every ParasutAPIError is retried, not only the
\* rate-limit subclass.
retry_if_any_api_error(exception) ==
    exception \in {"RequestError", "ParasutRateLimitError", "ParasutAPIError"}

\* retry_if_exception_type((httpx.RequestError, ParasutRateLimitError)), line 155.
retry_if(exception) == exception \in {"RequestError", "ParasutRateLimitError"}

\* Lines 189-195: e.response.json(), or None when the body is not JSON.
error_data(body) == IF body[1] = "json" THEN body[2] ELSE None

\* Lines 188-195: the body as the error message shows it, json.dumps of the
\* parsed body or the text itself.
error_message_body(body) == body[2]

\* What export_invoice raises (lines 331-337) when _make_request left with
\* `exception`: a ParasutAPIError, subclass or not, is raised again as it is,
\* anything else is wrapped in a new ParasutAPIError without status code.
export_raises(exception) ==
    IF exception \in {"ParasutAPIError", "ParasutRateLimitError"}
    THEN exception ELSE "ParasutAPIError"

\* Mutant of export_refuses: the check for extracted_data is missing.
export_refuses_never(has_data) == FALSE

\* Line 306: `not invoice.extracted_data`.
export_refuses(has_data) == ~has_data

\* export_invoice is called (lines 305-309) for an invoice with or without
\* extracted_data; without, ParasutAPIError is raised before anything is sent.
export_invoice_called(has_data) ==
    /\ request.pc \in {"idle", "done"}
    /\ request' =
          IF export_refuses(has_data)
          THEN [RequestIdle EXCEPT !.pc = "done", !.has_data = has_data,
                                   !.res = "ParasutAPIError",
                                   !.raised = "ParasutAPIError"]
          ELSE [RequestIdle EXCEPT !.pc = "attempting", !.has_data = has_data]
    /\ UNCHANGED <<invoice, exports, ledgerVars, last, reconVars, kdv, extraction, clockVars>>

\* The state of the call after one attempt of _make_request raised
\* `exception` (lines 152-156): tenacity starts another attempt when the
\* exception is one it retries and fewer than three attempts were made, raises
\* RetryError when it is one it retries and three were made, and lets any
\* other exception through at once. What leaves _make_request is then
\* handled by export_invoice (lines 331-337).
attempt_raised(r, exception) ==
    IF retry_if(exception) /\ r.attempt < StopAfterAttempt
    THEN r
    ELSE LET left == IF retry_if(exception) THEN "RetryError" ELSE exception
         IN  [r EXCEPT !.pc = "done", !.res = left, !.raised = export_raises(left),
                       !.status_code = IF left = exception THEN @ ELSE NoStatus,
                       !.response_data = IF left = exception THEN @ ELSE None,
                       !.message_body = IF left = exception THEN @ ELSE None]

\* One attempt of _make_request (lines 164-206) at the present time.
\* _get_headers authenticates first, outside the `try`; then the request is
\* sent and answered with `answer`, an answer of 4xx/5xx carrying `code` and
\* `body`, a 2xx answer carrying `id` in data.id.
make_request_attempt(answer, code, body, id) ==
    /\ request.pc = "attempting"
    /\ \E a \in authenticate_at(client_open, token, token_expires_at,
                                 CacheEntry(redis_token, redis_expires_at), now) :
          /\ token' = a.token
          /\ token_expires_at' = a.expires
          /\ redis_token' = a.cache.token
          /\ redis_expires_at' = a.cache.expires
          /\ LET r == [request EXCEPT !.attempt = @ + 1, !.exch = @ + a.exch,
                                      !.http_status = NoStatus, !.body = NoBody,
                                      !.status_code = NoStatus, !.response_data = None,
                                      !.message_body = None]
                 sent == [r EXCEPT !.posts = @ + 1, !.outcome = answer]
             IN  request' =
                    IF ~a.ok
                    THEN attempt_raised([r EXCEPT !.outcome = "auth_failed",
                                                 !.auth_failure = a.failure], a.error)
                    ELSE IF ~client_open
                    THEN attempt_raised([r EXCEPT !.outcome = "not_open"], "RuntimeError")
                    ELSE CASE answer = "ok" ->
                                [sent EXCEPT !.pc = "done", !.res = "ok", !.id = id,
                                             !.http_status = 200]
                           [] answer = "rate_limit" ->
                                attempt_raised(
                                    [sent EXCEPT !.http_status = 429, !.status_code = 429,
                                                 !.rate_limited = @ + 1],
                                    "ParasutRateLimitError")
                           [] answer = "status_error" ->
                                attempt_raised(
                                    [sent EXCEPT !.http_status = code, !.body = body,
                                                 !.status_code = code,
                                                 !.response_data = error_data(body),
                                                 !.message_body = error_message_body(body)],
                                    "ParasutAPIError")
                           [] answer = "network" ->
                                attempt_raised(sent, "RequestError")
    /\ UNCHANGED <<invoice, exports, client_open, last, reconVars, kdv, extraction, now>>

\* Time passes.
tick ==
    /\ now < MaxTime
    /\ now' = now + 1
    /\ UNCHANGED <<invoice, exports, ledgerVars, last, reconVars, kdv, extraction,
                   token_expires_at, redis_expires_at, request>>

\* Another holder of the shared cache writes the entry: the key lives in a
\* Redis any process with REDIS_URL can write to.
cache_set(tok, life) ==
    /\ redis_token' = tok
    /\ redis_expires_at' = now + life
    /\ UNCHANGED <<invoice, exports, client_open, token, last, reconVars, kdv, extraction,
                   now, token_expires_at, request>>

NextLedger ==
    \/ aenter
    \/ aexit
    \/ tick
    \/ \E tok \in Tokens, life \in CacheLifetimes : cache_set(tok, life)
    \/ \E has_data \in BOOLEAN : export_invoice_called(has_data)
    \/ \E answer \in HttpOutcomes, code \in ErrorStatusCodes, body \in ErrorBodies,
          id \in LedgerIds : make_request_attempt(answer, code, body, id)

SpecLedger == Init /\ [][NextLedger]_vars

\* The step was one attempt of _make_request.
Attempted == request'.attempt = request.attempt + 1

\* The step was an attempt whose request was sent and answered with `answer`.
Answered(answer) ==
    Attempted /\ request'.posts = request.posts + 1 /\ request'.outcome = answer

C17_StatusErrorSurfaced ==
    [][ Answered("status_error")
        => /\ request'.pc = "done"
           /\ request'.res = "ParasutAPIError" /\ request'.raised = "ParasutAPIError"
           /\ request'.status_code = request'.http_status
           /\ request'.response_data = request'.body[2] ]_vars

\* C17 amended: ... whose status_code is the status of the answer and whose
\* response_data is the parsed body when the body is JSON, and None when it
\* is not, the text of the body then being part of the message.
C17_StatusErrorSurfacedParsed ==
    [][ Answered("status_error")
        => /\ request'.pc = "done"
           /\ request'.res = "ParasutAPIError" /\ request'.raised = "ParasutAPIError"
           /\ request'.status_code = request'.http_status
           /\ request'.status_code \in ErrorStatusCodes
           /\ IF request'.body[1] = "json"
              THEN request'.response_data = request'.body[2]
              ELSE /\ request'.response_data = None
                   /\ request'.message_body = request'.body[2] ]_vars

\* C17 witness: the first request of a call was answered 503 with a body that
\* is not JSON, and the call ended there.
C17_Witness ==
    /\ request.pc = "done" /\ request.outcome = "status_error"
    /\ request.attempt = 1 /\ request.posts = 1
    /\ request.http_status = 503 /\ request.body[1] = "text"

\* C18: an attempt that does not end in a 429 answer is the last attempt of
\* the call, a transport failure included.
C18_OnlyRateLimitRetried ==
    [][ (Attempted /\ request'.outcome # "rate_limit") => request'.pc = "done" ]_vars

\* C19: when all three attempts of an export were answered 429,
\* export_invoice raises ParasutRateLimitError.
C19_ExhaustedRaisesRateLimit ==
    (request.pc = "done" /\ request.rate_limited = 3)
        => request.raised = "ParasutRateLimitError"

C21_TokenExchangeRetried ==
    [][ (Attempted /\ request'.outcome = "auth_failed"
         /\ request'.auth_failure = "network")
        => request'.exch = request.exch + 3 ]_vars

\* C22: export_invoice for an invoice without extracted_data raises
\* ParasutAPIError at once: no attempt is made, no token is exchanged and no
\* request is sent, and the client's token is left as it was.
C22_NoDataExportRefused ==
    [][ (request'.pc # "idle" /\ ~request'.has_data)
        => /\ request'.pc = "done"
           /\ request'.raised = "ParasutAPIError"
           /\ request'.attempt = 0 /\ request'.exch = 0 /\ request'.posts = 0
           /\ (request' # request => UNCHANGED <<ledgerVars, token_expires_at>>) ]_vars

\* C22 witness: an invoice without data was refused by a client that is open
\* and has sent a request for another invoice before.
C22_Witness ==
    /\ request.pc = "done" /\ ~request.has_data
    /\ request.raised = "ParasutAPIError" /\ client_open /\ token # None

-----------------------------------------------------------------------------
(* KDVCalculator (services/kdv_calculator.py), method by method.           *)
(* Amounts are in hundredths of a currency unit and rates in hundredths of *)
(* a percent (20% is 2000), the finest grain validate() gives a rate.      *)

MaxAmount == 6

\* KDV_RATES.keys(), in the order the dict lists them (lines 24-44).
KDV_RATES == <<100, 1000, 2000>>

\* TOLERANCE = Decimal("0.01") (line 46).
TOLERANCE == 1

\* Decimal("20"), the rate validate takes when it can infer none (line 155).
DefaultRate == 2000

\* Decimal("100") as a rate, and the factor between a percentage and a
\* fraction in hundredths of a percent.
Hundred == 10000

RECURSIVE Gcd(_, _)
Gcd(a, b) == IF b = 0 THEN a ELSE Gcd(b, a % b)

\* (a * m / d).quantize(Decimal("0.01"), rounding=ROUND_HALF_UP) for d # 0:
\* the quotient rounded to the nearest integer, halves away from zero.
\* Decimal computes a * m / d exactly for these magnitudes; here m / d is
\* reduced and the integer part of a / d split off first, which leaves the
\* value unchanged and keeps the products small.
QuantizeHalfUp(a, m, d) ==
    LET negative == ((a < 0) # (m < 0)) # (d < 0)
        g == Gcd(Abs(m), Abs(d))
        aa == Abs(a)
        mm == Abs(m) \div g
        dd == Abs(d) \div g
        q == (aa \div dd) * mm + (2 * ((aa % dd) * mm) + dd) \div (2 * dd)
    IN  IF negative THEN -q ELSE q

\* A KDVResult.
KDVResult(is_valid, subtotal, kdv_amount, total, kdv_rate, suggested_values, error_message) ==
    [is_valid |-> is_valid, subtotal |-> subtotal, kdv_amount |-> kdv_amount,
     total |-> total, kdv_rate |-> kdv_rate, suggested_values |-> suggested_values,
     error_message |-> error_message]

\* Mutant of subtotal_refused: -0.01 is let through.
subtotal_refused_below_cent(subtotal) == subtotal < -1

\* calculate, line 74: `subtotal < 0`.
subtotal_refused(subtotal) == subtotal < 0

\* Mutant of forward_kdv: the tax is cut off after the second decimal.
forward_kdv_truncated(subtotal, rate) ==
    IF (subtotal < 0) = (rate < 0)
    THEN (Abs(subtotal) \div Hundred) * Abs(rate)
         + ((Abs(subtotal) % Hundred) * Abs(rate)) \div Hundred
    ELSE -((Abs(subtotal) \div Hundred) * Abs(rate)
           + ((Abs(subtotal) % Hundred) * Abs(rate)) \div Hundred)

\* calculate, lines 87-89: subtotal * rate / 100, quantized.
forward_kdv(subtotal, rate) == QuantizeHalfUp(subtotal, rate, Hundred)

\* KDVCalculator.calculate (lines 58-109) for numbers: Decimal(str(x)) is
\* then x itself and nothing in the `try` raises.
calculate(subtotal, rate) ==
    IF subtotal_refused(subtotal)
    THEN KDVResult(FALSE, subtotal, 0, subtotal, rate, NoData,
                   "KDV haric tutar negatif olamaz")
    ELSE LET kdv_amount == forward_kdv(subtotal, rate)
         IN  KDVResult(TRUE, subtotal, kdv_amount, subtotal + kdv_amount, rate,
                       NoData, None)

\* Mutant of closer: a rate as close as the closest so far replaces it.
closer_or_equal(diff, min_diff) == diff <= min_diff

\* _find_closest_valid_rate, line 244: `diff < min_diff`.
closer(diff, min_diff) == diff < min_diff

\* The loop of lines 242-246 over the rates left.
RECURSIVE closest_loop(_, _, _)
closest_loop(rates, calculated_rate, closest_rate) ==
    IF rates = << >> THEN closest_rate
    ELSE closest_loop(Tail(rates), calculated_rate,
                      IF closer(Abs(calculated_rate - Head(rates)),
                                Abs(calculated_rate - closest_rate))
                      THEN Head(rates) ELSE closest_rate)

\* KDVCalculator._find_closest_valid_rate (lines 234-248).
find_closest_valid_rate(calculated_rate) ==
    closest_loop(Tail(KDV_RATES), calculated_rate, Head(KDV_RATES))

\* Mutant of within_tolerance: a difference of exactly 0.01 is not accepted.
within_tolerance_strict(diff) == diff < TOLERANCE

\* validate, lines 176-178: `diff <= cls.TOLERANCE`.
within_tolerance(diff) == diff <= TOLERANCE

\* validate, lines 147-157: the rate the check runs with. Without a rate,
\* kdv_amount / subtotal * 100 is quantized to 0.01 and snapped to the
\* schedule, or the default is taken when subtotal is 0.
effective_rate(subtotal, kdv_amount, rate_given, rate) ==
    IF rate_given THEN rate
    ELSE IF subtotal > 0
         THEN find_closest_valid_rate(QuantizeHalfUp(kdv_amount, Hundred, subtotal))
         ELSE DefaultRate

\* Mutant of suggested: the disputed tax is kept and only the total is redone.
suggested_keeps_tax(subtotal, kdv_amount, expected_kdv, rate) ==
    [kdv_amount |-> kdv_amount, total |-> subtotal + kdv_amount,
     subtotal |-> subtotal, kdv_rate |-> rate]

\* validate, lines 206-211: suggested_values.
suggested(subtotal, kdv_amount, expected_kdv, rate) ==
    [kdv_amount |-> expected_kdv, total |-> subtotal + expected_kdv,
     subtotal |-> subtotal, kdv_rate |-> rate]

\* KDVCalculator.validate (lines 111-232) for numbers; rate_given is whether
\* a rate was passed (`rate is None` otherwise).
validate(subtotal, kdv_amount, total, rate_given, rate) ==
    IF subtotal < 0 \/ kdv_amount < 0 \/ total < 0
    THEN KDVResult(FALSE, subtotal, kdv_amount, total,
                   IF rate_given THEN rate ELSE 0, NoData, "Tutarlar negatif olamaz")
    ELSE LET r == effective_rate(subtotal, kdv_amount, rate_given, rate)
             expected_kdv == QuantizeHalfUp(subtotal, r, Hundred)
             expected_total == subtotal + expected_kdv
             calculated_total == subtotal + kdv_amount
             is_total_valid == within_tolerance(Abs(total - calculated_total))
             is_kdv_valid == within_tolerance(Abs(kdv_amount - expected_kdv))
             is_expected_total_valid == within_tolerance(Abs(total - expected_total))
         IN  IF ~(is_total_valid /\ is_kdv_valid /\ is_expected_total_valid)
             THEN KDVResult(FALSE, subtotal, kdv_amount, total, r,
                            suggested(subtotal, kdv_amount, expected_kdv, r), "uyusmazlik")
             ELSE KDVResult(TRUE, subtotal, kdv_amount, total, r, NoData, None)

\* Mutant of backward_divisor: the rate is added as it is, not as a fraction.
backward_divisor_whole_rate(rate) == Hundred + rate * 100

\* calculate_from_total, line 277: 1 + rate / 100, in units of 1/10000.
backward_divisor(rate) == Hundred + rate

\* Mutant of backward_subtotal: the tax share is returned as the subtotal.
backward_subtotal_tax_share(total, rate) ==
    total - QuantizeHalfUp(total, Hundred, backward_divisor(rate))

\* calculate_from_total, lines 278-280: total / divisor, quantized.
backward_subtotal(total, rate) == QuantizeHalfUp(total, Hundred, backward_divisor(rate))

\* KDVCalculator.calculate_from_total (lines 250-300) for numbers. A rate of
\* -100 makes the divisor 0: the DivisionByZero is caught at line 291.
calculate_from_total(total, rate) ==
    IF total < 0
    THEN KDVResult(FALSE, 0, 0, total, rate, NoData, "Toplam tutar negatif olamaz")
    ELSE IF backward_divisor(rate) = 0
    THEN KDVResult(FALSE, 0, 0, total, rate, NoData, "Hesaplama hatasi")
    ELSE LET subtotal == backward_subtotal(total, rate)
         IN  KDVResult(TRUE, subtotal, total - subtotal, total, rate, NoData, None)

\* Amounts handed to the calculator: small ones around zero, and the sums of
\* an invoice of 10000.00 at 20%.
SampleAmounts == {50, 250, 199900, 200000, 1000000, 1200000}
Amounts == (-1 .. MaxAmount) \cup SampleAmounts

\* Triples (subtotal, kdv_amount, total) handed to validate: every triple of
\* small amounts, and the sums of the invoice of 10000.00 as stated and with
\* the tax or the total off.
SmallAmounts == (-1 .. MaxAmount) \cup {50, 250}
Triples ==
    (SmallAmounts \X SmallAmounts \X SmallAmounts)
    \cup ({1000000} \X {199900, 200000, 200001} \X {1199900, 1200000, 1200002})

\* Rates handed to the calculator: in the schedule, outside it, zero, below
\* zero.
Rates == {-10000, -2000, 0, 100, 1000, 1850, 2000}

\* Inferred rates handed to _find_closest_valid_rate: every half percent up
\* to 25%, and the rates next to the two midpoints of the schedule.
InferredRates == {50 * k : k \in 0..50} \cup {549, 551, 1499, 1501}

\* calculate(subtotal, rate) is called.
call_calculate(subtotal, rate) ==
    /\ kdv.op = "none"
    /\ kdv' = [op |-> "calculate", subtotal |-> subtotal, rate |-> rate,
               res |-> calculate(subtotal, rate)]
    /\ UNCHANGED <<invoice, exports, ledgerVars, last, reconVars, extraction, clockVars, request>>

\* validate(subtotal, kdv_amount, total[, rate]) is called, and when it
\* suggests values, validate is called again with them.
call_validate(subtotal, kdv_amount, total, rate_given, rate) ==
    /\ kdv.op = "none"
    /\ LET res == validate(subtotal, kdv_amount, total, rate_given, rate)
           sv == res.suggested_values
       IN  kdv' = [op |-> "validate", subtotal |-> subtotal, kdv_amount |-> kdv_amount,
                   total |-> total, rate_given |-> rate_given,
                   rate |-> IF rate_given THEN rate ELSE 0,
                   res |-> res,
                   again |-> IF sv # NoData
                             THEN validate(sv.subtotal, sv.kdv_amount, sv.total,
                                           TRUE, sv.kdv_rate)
                             ELSE res]
    /\ UNCHANGED <<invoice, exports, ledgerVars, last, reconVars, extraction, clockVars, request>>

\* _find_closest_valid_rate(calculated_rate) is called.
call_find_closest_valid_rate(calculated_rate) ==
    /\ kdv.op = "none"
    /\ kdv' = [op |-> "closest", calculated_rate |-> calculated_rate,
               res |-> find_closest_valid_rate(calculated_rate)]
    /\ UNCHANGED <<invoice, exports, ledgerVars, last, reconVars, extraction, clockVars, request>>

\* calculate_from_total(total, rate) is called.
call_calculate_from_total(total, rate) ==
    /\ kdv.op = "none"
    /\ kdv' = [op |-> "calculate_from_total", total |-> total, rate |-> rate,
               res |-> calculate_from_total(total, rate)]
    /\ UNCHANGED <<invoice, exports, ledgerVars, last, reconVars, extraction, clockVars, request>>

\* calculate(subtotal, rate) is called and its total handed to
\* calculate_from_total with the same rate.
call_round_trip(subtotal, rate) ==
    /\ kdv.op = "none"
    /\ LET forward == calculate(subtotal, rate)
       IN  kdv' = [op |-> "round_trip", subtotal |-> subtotal, rate |-> rate,
                   forward |-> forward,
                   res |-> calculate_from_total(forward.total, rate)]
    /\ UNCHANGED <<invoice, exports, ledgerVars, last, reconVars, extraction, clockVars, request>>

NextKdv ==
    \/ \E subtotal \in Amounts, rate \in Rates : call_calculate(subtotal, rate)
    \/ \E t \in Triples, rate_given \in BOOLEAN, rate \in Rates :
          call_validate(t[1], t[2], t[3], rate_given, rate)
    \/ \E calculated_rate \in InferredRates : call_find_closest_valid_rate(calculated_rate)
    \/ \E total \in Amounts, rate \in Rates : call_calculate_from_total(total, rate)
    \/ \E subtotal \in Amounts, rate \in Rates : call_round_trip(subtotal, rate)

SpecKdv == Init /\ [][NextKdv]_vars

\* q is a * m / d rounded to the nearest integer, halves up, for a >= 0,
\* m > 0 and d > 0: stated by the two inequalities that define the rounding,
\* with m / d in lowest terms.
IsHalfUpQuotient(q, a, m, d) ==
    LET g == Gcd(m, d)
        mm == m \div g
        dd == d \div g
    IN  /\ 2 * q * dd - dd <= 2 * a * mm
        /\ 2 * a * mm < 2 * q * dd + dd

\* C23: calculate with a subtotal >= 0 and any rate, in the schedule or not,
\* returns is_valid = true, kdv_amount = subtotal * rate / 100 rounded half-up
\* to 2 decimals (halves away from zero when the rate is below zero) and
\* total = subtotal + kdv_amount.
C23_ForwardTax ==
    (kdv.op = "calculate" /\ kdv.subtotal >= 0)
    => /\ kdv.res.is_valid
       /\ kdv.res.subtotal = kdv.subtotal
       /\ kdv.res.kdv_rate = kdv.rate
       /\ IF kdv.rate = 0 THEN kdv.res.kdv_amount = 0
          ELSE IF kdv.rate > 0
          THEN IsHalfUpQuotient(kdv.res.kdv_amount, kdv.subtotal, kdv.rate, Hundred)
          ELSE IsHalfUpQuotient(-kdv.res.kdv_amount, kdv.subtotal, -kdv.rate, Hundred)
       /\ kdv.res.total = kdv.subtotal + kdv.res.kdv_amount

\* calculate(10000.00, 20) has returned tax 2000.00 and total 12000.00.
C23_Witness ==
    /\ kdv.op = "calculate" /\ kdv.subtotal = 1000000 /\ kdv.rate = 2000
    /\ kdv.res.is_valid /\ kdv.res.kdv_amount = 200000 /\ kdv.res.total = 1200000

\* A tax that ends on half a cent: calculate(2.50, 1) has returned 0.03.
C23_WitnessHalf ==
    /\ kdv.op = "calculate" /\ kdv.subtotal = 250 /\ kdv.rate = 100
    /\ kdv.res.kdv_amount = 3

\* C24: validate with non-negative subtotal, tax and total returns
\* is_valid = true exactly when |subtotal + tax - total|, |tax - forward tax|
\* and |total - forward total| are all at most 0.01, forward being calculate
\* at the effective rate (the given one, or the inferred one).
C24_ValidIffThreeChecks ==
    (kdv.op = "validate" /\ kdv.subtotal >= 0 /\ kdv.kdv_amount >= 0 /\ kdv.total >= 0)
    => LET r == kdv.res.kdv_rate
           forward == calculate(kdv.subtotal, r)
       IN  /\ kdv.rate_given => r = kdv.rate
           /\ ~kdv.rate_given =>
                 r = IF kdv.subtotal > 0
                     THEN find_closest_valid_rate(
                              QuantizeHalfUp(kdv.kdv_amount, Hundred, kdv.subtotal))
                     ELSE DefaultRate
           /\ kdv.res.is_valid <=>
                 /\ Abs(kdv.subtotal + kdv.kdv_amount - kdv.total) <= TOLERANCE
                 /\ Abs(kdv.kdv_amount - forward.kdv_amount) <= TOLERANCE
                 /\ Abs(kdv.total - forward.total) <= TOLERANCE

\* validate(0.05, 0.00, 0.06, rate 20): the forward tax is 0.01, so the tax
\* and the sum are each off by exactly 0.01, and the triple is accepted.
C24_Witness ==
    /\ kdv.op = "validate" /\ kdv.subtotal = 5 /\ kdv.kdv_amount = 0 /\ kdv.total = 6
    /\ kdv.rate_given /\ kdv.rate = 2000
    /\ kdv.res.is_valid

\* C25: whenever validate returns is_valid = false with suggested_values,
\* validate of the suggested subtotal, tax and total with the suggested rate
\* returns is_valid = true.
C25_SuggestedValuesValidate ==
    (kdv.op = "validate" /\ ~kdv.res.is_valid /\ kdv.res.suggested_values # NoData)
    => kdv.again.is_valid

\* C26: whenever validate returns is_valid = false for non-negative inputs,
\* suggested_values is present and is the forward recomputation at the
\* effective rate: the subtotal as given, calculate's tax and total, the rate.
C26_SuggestedIsForward ==
    (/\ kdv.op = "validate" /\ kdv.subtotal >= 0 /\ kdv.kdv_amount >= 0 /\ kdv.total >= 0
     /\ ~kdv.res.is_valid)
    => LET r == kdv.res.kdv_rate
           forward == calculate(kdv.subtotal, r)
       IN  /\ kdv.rate_given => r = kdv.rate
           /\ kdv.res.suggested_values # NoData
           /\ kdv.res.suggested_values.subtotal = kdv.subtotal
           /\ kdv.res.suggested_values.kdv_amount = forward.kdv_amount
           /\ kdv.res.suggested_values.total = forward.total
           /\ kdv.res.suggested_values.kdv_rate = r

\* validate(10000.00, 1999.00, 12000.00) without a rate has returned
\* is_valid = false at the inferred rate 20 with the suggested tax 2000.00.
C26_Witness ==
    /\ kdv.op = "validate" /\ kdv.subtotal = 1000000 /\ kdv.kdv_amount = 199900
    /\ kdv.total = 1200000 /\ ~kdv.rate_given
    /\ ~kdv.res.is_valid /\ kdv.res.kdv_rate = 2000
    /\ kdv.res.suggested_values # NoData
    /\ kdv.res.suggested_values.kdv_amount = 200000

\* The rates of the schedule as a set.
ScheduleRates == {KDV_RATES[i] : i \in DOMAIN KDV_RATES}

\* C27: _find_closest_valid_rate returns the rate of the schedule at minimal
\* distance from the inferred rate, and the smaller one of two rates at the
\* same distance; this fixes one result for each inferred rate.
C27_ClosestRate ==
    kdv.op = "closest"
    => /\ kdv.res \in ScheduleRates
       /\ \A entry \in ScheduleRates :
             /\ Abs(kdv.calculated_rate - kdv.res) <= Abs(kdv.calculated_rate - entry)
             /\ Abs(kdv.calculated_rate - kdv.res) = Abs(kdv.calculated_rate - entry)
                   => kdv.res <= entry

\* An inferred rate of 15 is as far from 10 as from 20, and 10 was returned.
C27_Witness ==
    kdv.op = "closest" /\ kdv.calculated_rate = 1500 /\ kdv.res = 1000

\* C28: for a subtotal S >= 0 and a rate R of the schedule,
\* calculate_from_total(calculate(S, R).total, R).subtotal is within 0.01 of S.
C28_RoundTrip ==
    (kdv.op = "round_trip" /\ kdv.subtotal >= 0 /\ kdv.rate \in ScheduleRates)
    => /\ kdv.res.is_valid
       /\ Abs(kdv.res.subtotal - kdv.subtotal) <= TOLERANCE

\* 2.50 at 1% went forward to 2.53 (the tax 0.025 rounded up) and came back
\* as 2.50.
C28_Witness ==
    /\ kdv.op = "round_trip" /\ kdv.subtotal = 250 /\ kdv.rate = 100
    /\ kdv.forward.total = 253 /\ kdv.res.subtotal = 250

\* C29: calculate_from_total with total >= 0 and rate >= 0 returns
\* is_valid = true, subtotal = total / (1 + rate / 100) rounded half-up to 2
\* decimals and kdv_amount = total - subtotal; with total < 0 it returns
\* is_valid = false with an error message.
C29_BackwardTax ==
    kdv.op = "calculate_from_total"
    => /\ (kdv.total >= 0 /\ kdv.rate >= 0)
             => /\ kdv.res.is_valid
                /\ IsHalfUpQuotient(kdv.res.subtotal, kdv.total, Hundred, Hundred + kdv.rate)
                /\ kdv.res.kdv_amount = kdv.total - kdv.res.subtotal
                /\ kdv.res.subtotal + kdv.res.kdv_amount = kdv.total
                /\ kdv.res.total = kdv.total
       /\ kdv.total < 0
             => /\ ~kdv.res.is_valid
                /\ kdv.res.error_message \notin {None, ""}

\* calculate_from_total(12000.00, 20) has returned subtotal 10000.00 and tax
\* 2000.00.
C29_Witness ==
    /\ kdv.op = "calculate_from_total" /\ kdv.total = 1200000 /\ kdv.rate = 2000
    /\ kdv.res.is_valid /\ kdv.res.subtotal = 1000000 /\ kdv.res.kdv_amount = 200000

\* calculate_from_total(-0.01, 20) has returned is_valid = false.
C29_WitnessNegative ==
    /\ kdv.op = "calculate_from_total" /\ kdv.total < 0
    /\ ~kdv.res.is_valid /\ kdv.res.error_message # None

\* C30: calculate with a subtotal < 0 returns, for every rate, a result with
\* is_valid = false and a non-empty error_message.
C30_NegativeSubtotalRefused ==
    (kdv.op = "calculate" /\ kdv.subtotal < 0)
    => /\ ~kdv.res.is_valid
       /\ kdv.res.error_message \notin {None, ""}

\* calculate(-0.01, -20) has returned is_valid = false with a message.
C30_Witness ==
    /\ kdv.op = "calculate" /\ kdv.subtotal = -1 /\ kdv.rate = -2000
    /\ ~kdv.res.is_valid /\ kdv.res.error_message # None

-----------------------------------------------------------------------------
(* Claims about edits, checked under Spec *)

\* The edit carries a subtotal and a kdv_rate (line 237).
SuppliesPair(ed) == ed # NoData /\ Truthy(ed, "subtotal") /\ Truthy(ed, "kdv_rate")

\* C31: an edit by the owner of a completed or failed invoice that supplies
\* both subtotal and kdv_rate is answered 200 and the edited pair is stored.
C31_EditRunsTaxEngine ==
    [][ \A u \in Users, ed \in EditDicts, st \in StatusInputs :
           (/\ update_invoice(u, ed, st)
            /\ found(invoice, u)
            /\ invoice.status \in {COMPLETED, FAILED}
            /\ SuppliesPair(ed))
           => /\ last'.code = 200
              /\ Truthy(invoice'.extracted_data, "subtotal")
              /\ Truthy(invoice'.extracted_data, "kdv_rate") ]_vars

-----------------------------------------------------------------------------
(* Claims about the temperature schedule, checked under SpecExtract *)

\* C32: the temperature of pass i of extract_invoice_data is
\* min(initial_temperature + 0.2 * i, 1.0): it is one of the two, at most
\* either, and therefore never above 1.0 and never below the temperature of
\* the pass before.
C32_TemperatureSchedule ==
    [][ (extraction.pc = "loop" /\ extraction' # extraction)
        => LET i == extraction.attempt
               ramp == extraction.initial_temperature + 2 * i
               t == extraction'.temperature
           IN  /\ i \in 0..extraction.max_retries
               /\ t \in {ramp, 10}
               /\ t <= ramp
               /\ t <= 10
               /\ i > 0 => t >= extraction.temperature ]_vars

\* The third pass of a call with initial temperature 0.7 has run at 1.0
\* (0.7 + 0.4 capped), after the second ran at 0.9.
C32_Witness ==
    /\ extraction.pc \in {"returned", "raised"}
    /\ extraction.initial_temperature = 7
    /\ extraction.attempt = 2
    /\ extraction.temperature = 10

-----------------------------------------------------------------------------
(* Claims about the shared token cache, checked under SpecLedger *)

\* The step was an attempt whose _authenticate exchanged a token with success.
Exchanged ==
    /\ Attempted
    /\ request'.exch = request.exch + 1
    /\ request'.outcome # "auth_failed"

\* C33: after a successful token exchange the shared cache holds the new
\* token, with a time-to-live of expires_in less 60 seconds.
C33_ExchangedTokenCached ==
    [][ Exchanged
        => /\ redis_token' = token'
           /\ redis_expires_at' = token_expires_at' - 1 ]_vars

\* C34: when the shared cache holds a token, _authenticate returns it and
\* sends no token exchange; an exchange is sent only by an exporter that
\* found the cache empty.
C34_CachedTokenPreferred ==
    [][ (Attempted /\ redis_token # None /\ now < redis_expires_at)
        => /\ request'.exch = request.exch
           /\ token' = redis_token ]_vars

-----------------------------------------------------------------------------
(* Claims about ownership and export, checked under Spec *)

\* The step handled an update, delete or export request of a user who does
\* not own the stored invoice.
NonOwnerRequest ==
    /\ invoice.exists
    /\ last'.op \in {"update", "delete", "export"}
    /\ last'.user \in Users
    /\ last'.user # invoice.user_id

\* C35: an update, delete or export request of a user who is not the owner
\* is answered 404, leaves the invoice as it is and sends nothing to the
\* ledger. Since such a step changes neither the invoice nor the client, runs
\* that differ only in such steps take the invoice through the same states.
C35_NonOwnerNotFound ==
    [][ NonOwnerRequest
        => /\ last'.code = 404
           /\ invoice' = invoice
           /\ last'.exch = 0 /\ last'.posts = 0
           /\ UNCHANGED ledgerVars ]_vars

\* A user who is not the owner has asked for the export of a completed
\* invoice with data while the client was open, and was answered 404.
C35_Witness ==
    /\ invoice.exists /\ invoice.status = COMPLETED /\ invoice.extracted_data # NoData
    /\ client_open
    /\ last.op = "export" /\ last.user \in Users /\ last.user # invoice.user_id
    /\ last.code = 404

-----------------------------------------------------------------------------
(* Export requests handled at the same time (api/v1/invoices.py,           *)
(* export_to_parasut): each request runs in its own task with its own      *)
(* session, and `await` gives way to the other between its steps.          *)

\* Lines 330-361: the request of `user` reaches worker w, which reads the row
\* and checks it. A request that is refused is answered at once.
export_begin(w, user) ==
    /\ exports.worker[w].pc = "idle"
    /\ IF ~found(invoice, user)
       THEN /\ last' = Handled("export", user, 404, 0, 0)
            /\ UNCHANGED exports
       ELSE IF export_rejects(invoice)
       THEN /\ last' = Handled("export", user, 400, 0, 0)
            /\ UNCHANGED exports
       ELSE /\ exports' = [exports EXCEPT !.worker[w] =
                              [WorkerIdle EXCEPT !.pc = "calling", !.user = user,
                                                 !.row = invoice]]
            /\ UNCHANGED last
    /\ UNCHANGED <<invoice, ledgerVars, reconVars, extraction, clockVars, request, kdv>>

\* Line 364: worker w hands the row it read to parasut_client.export_invoice,
\* the client all requests share. A call that returns has had its POST
\* answered 2xx: the ledger has created an invoice.
export_call(w) ==
    /\ exports.worker[w].pc = "calling"
    /\ \E r \in export_invoice(exports.worker[w].row, client_open, token, redis_token) :
          /\ token' = r.token
          /\ redis_token' = r.cache
          /\ exports' = [exports EXCEPT
                           !.worker[w] = [@ EXCEPT !.pc = "called", !.raised = r.raised,
                                                   !.result = r.result, !.exch = r.exch,
                                                   !.posts = r.posts],
                           !.created = IF r.raised THEN @ ELSE @ + 1]
    /\ UNCHANGED <<invoice, client_open, last, reconVars, extraction, clockVars, request, kdv>>

\* Lines 366-387: worker w commits the export, or answers 502 when the call
\* raised ParasutAPIError.
export_finish(w) ==
    /\ exports.worker[w].pc = "called"
    /\ LET x == exports.worker[w]
       IN  IF x.raised
           THEN /\ invoice' = export_failed(invoice)
                /\ last' = Handled("export", x.user, 502, x.exch, x.posts)
           ELSE /\ invoice' = export_commit(invoice, x.result)
                /\ last' = Handled("export", x.user, 200, x.exch, x.posts)
    /\ exports' = [exports EXCEPT !.worker[w] = WorkerIdle]
    /\ UNCHANGED <<ledgerVars, reconVars, extraction, clockVars, request, kdv>>

NextExporters ==
    \/ \E u \in Users, stored \in BOOLEAN, dispatched \in BOOLEAN :
          upload_invoice(u, stored, dispatched)
    \/ begin_processing
    \/ complete_processing
    \/ mark_failed
    \/ aenter
    \/ aexit
    \/ \E w \in Workers, u \in Users : export_begin(w, u)
    \/ \E w \in Workers : export_call(w)
    \/ \E w \in Workers : export_finish(w)

SpecExporters == Init /\ [][NextExporters]_vars

\* C36: whatever the interleaving of export requests for the invoice, the
\* ledger accepts at most one export POST for it, and so creates at most one
\* invoice.
C36_AtMostOneExport == exports.created <= 1

-----------------------------------------------------------------------------
(* Claims about the export linkage, checked under Spec *)

\* The step handled an export request of the owner that passed the guards
\* and whose ledger call did not return.
ExportCallFailed ==
    /\ last'.op = "export"
    /\ found(invoice, last'.user)
    /\ ~export_rejects(invoice)
    /\ last'.code # 200

\* C37: when the ledger call of an export fails, the request is answered
\* with an error (502) and the invoice is left as it was: completed, with
\* parasut_invoice_id and exported_at unset, so that another export request
\* passes the guards again.
C37_FailedExportLeavesInvoice ==
    [][ ExportCallFailed
        => /\ last'.code = 502
           /\ invoice' = invoice
           /\ invoice'.status = COMPLETED
           /\ invoice'.parasut_invoice_id = None
           /\ invoice'.exported_at = None
           /\ ~export_rejects(invoice') ]_vars

\* An export whose three attempts were all sent and failed has been
\* answered 502, and the invoice is still completed.
C37_Witness ==
    /\ last.op = "export" /\ last.code = 502 /\ last.posts = StopAfterAttempt
    /\ invoice.exists /\ invoice.user_id = last.user
    /\ invoice.status = COMPLETED /\ invoice.exported_at = None

\* C38: in every state of an invoice, status = exported exactly when
\* exported_to_parasut is true, and status = exported implies exported_at is
\* set.
C38_ExportLinkage ==
    invoice.exists
    => /\ (invoice.status = EXPORTED) <=> invoice.exported_to_parasut
       /\ invoice.status = EXPORTED => invoice.exported_at # None

-----------------------------------------------------------------------------
(* Claims about the sign of the amounts, checked under SpecKdv *)

\* C39: every result of calculate with is_valid = true has kdv_amount >= 0
\* and total >= subtotal >= 0, whatever subtotal and rate were passed.
C39_ValidAmountsNonNegative ==
    (kdv.op = "calculate" /\ kdv.res.is_valid)
    => /\ kdv.res.kdv_amount >= 0
       /\ kdv.res.total >= kdv.res.subtotal
       /\ kdv.res.subtotal >= 0

====
